---- MODULE Spec2Model ----
(***************************************************************************)
(* SkillBridge backend: registration, login, bearer tokens and the         *)
(* ownership-checked mutation of profiles and users.                       *)
(*                                                                         *)
(* The store (tables users and profiles) is shared by concurrent requests. *)
(* A request is a sequence of database round trips; every round trip is    *)
(* one step, and the Python code that runs between two round trips belongs  *)
(* to the step of the round trip before it.  The step that produces the    *)
(* response also closes the request's session (get_db's finally).          *)
(***************************************************************************)
EXTENDS Integers, FiniteSets, Sequences, TLC

\* ---------------------------------------------------------------- bounds
MaxUsers == 2
MaxProfiles == 2
MaxMinutes == 1
FineTicks == 3
MaxTokens == 2

\* ---------------------------------------------------------------- inputs
Emails == {"a@x.com", "b@x.com"}
Phones == {"111", "222"}
\* <<email, phone_number>> of a registration
Contacts == Emails \X Phones
TwoContacts == {<<"a@x.com", "111">>, <<"b@x.com", "222">>}
OneContact == {<<"a@x.com", "111">>}
Passwords == {"pw1", "pw2"}
OnePassword == {"pw1"}
\* Two passwords of 73 bytes that differ in the last byte only (password: str
\* has no max_length).
LongPasswords == {"long72+a", "long72+b"}
AnyPasswords == OnePassword \cup LongPasswords
\* <<first_name, last_name>>; registration sends the first pair
Names == {<<"f1", "l1">>, <<"f2", "l2">>}
RegisterNames == {<<"f1", "l1">>}
OneBio == {"bio1"}
Salts == {"s1", "s2"}
OneSalt == {"s1"}
Reqs == {"r1", "r2"}
OneAtATime == {"r1"}

UserIds == 1..MaxUsers
ProfileIds == 1..MaxProfiles

\* ----------------------------------------------------------------- state
VARIABLES
    users,      \* table users: set of rows
    profiles,   \* table profiles: set of rows
    nextUid,    \* uuid4() of the next user row
    nextPid,    \* uuid4() of the next profile row
    now,        \* the clock, in ticks
    issued,     \* the tokens the client holds, each returned by a login
    issuedAt,   \* the instant of that login
    req,        \* per request slot: where the request in flight stands
    ev          \* the step just taken, its inputs and, when it answered, the response

vars == <<users, profiles, nextUid, nextPid, now, issued, issuedAt, req, ev>>

\* ------------------------------------------------------------------ time
\* The clock counts half seconds, so that an instant can fall between two
\* whole seconds.
TicksPerSecond == 2
SecondsPerMinute == 60
ACCESS_TOKEN_EXPIRE_MINUTES == 1
TicksPerMinute == SecondsPerMinute * TicksPerSecond
\* timedelta(minutes=int(ACCESS_TOKEN_EXPIRE_MINUTES))
TokenTTL == ACCESS_TOKEN_EXPIRE_MINUTES * TicksPerMinute
MaxNow == MaxMinutes * TicksPerMinute

\* -------------------------------------------------------------- passwords
\* bcrypt reads the first 72 bytes of a password and no more; passlib hands
\* the password over as it is (truncate_error is off).
bcrypt_truncate(password) ==
    IF password \in LongPasswords THEN "long72" ELSE password

\* bcrypt: the hash string embeds the salt it was made with.
get_password_hash(password, salt) ==
    [scheme |-> "bcrypt", salt |-> salt, digest |-> <<bcrypt_truncate(password), salt>>]

verify_password_accept_all(plain_password, hashed_password) == TRUE

verify_password(plain_password, hashed_password) ==
    hashed_password.digest = <<bcrypt_truncate(plain_password), hashed_password.salt>>

\* ----------------------------------------------------------------- tokens
SECRET_KEY == "secret"
OtherKey == "not-the-secret"

\* HS256 over the payload with a key.
Sign(payload, key) == [key |-> key, over |-> payload]

NoPayload == [sub |-> "", id |-> 0, exp |-> 0]

\* No bearer token.
NoToken == [fmt |-> "none", payload |-> NoPayload, sig |-> Sign(NoPayload, OtherKey)]

\* A bearer string that is no JWT at all.
Garbage == [fmt |-> "garbage", payload |-> NoPayload, sig |-> Sign(NoPayload, OtherKey)]

jwt_encode(payload, key) == [fmt |-> "jwt", payload |-> payload, sig |-> Sign(payload, key)]

create_access_token_next_id(email, user_id, expires_delta, t) ==
    jwt_encode([sub |-> email, id |-> user_id + 1,
                exp |-> (t + expires_delta) \div TicksPerSecond], SECRET_KEY)

create_access_token_ceil(email, user_id, expires_delta, t) ==
    jwt_encode([sub |-> email, id |-> user_id,
                exp |-> (t + expires_delta + TicksPerSecond - 1) \div TicksPerSecond],
               SECRET_KEY)

\* jwt.encode writes a datetime exp as a NumericDate in whole seconds
\* (timegm(exp.utctimetuple())): the fraction of a second is dropped.
create_access_token(email, user_id, expires_delta, t) ==
    jwt_encode([sub |-> email, id |-> user_id,
                exp |-> (t + expires_delta) \div TicksPerSecond], SECRET_KEY)

ExpiredAt_late(exp, t) == exp * TicksPerSecond < t

\* jwt: "if exp <= (now - leeway): raise ExpiredSignatureError"
ExpiredAt(exp, t) == exp * TicksPerSecond <= t

jwt_decode_unsigned(token, key, t) ==
    IF token.fmt # "jwt" THEN "DecodeError"
    ELSE IF ExpiredAt(token.payload.exp, t) THEN "ExpiredSignatureError"
    ELSE "ok"

\* jwt.decode: "ok" or the name of the PyJWTError it raises.
jwt_decode(token, key, t) ==
    IF token.fmt # "jwt" THEN "DecodeError"
    ELSE IF token.sig # Sign(token.payload, key) THEN "InvalidSignatureError"
    ELSE IF ExpiredAt(token.payload.exp, t) THEN "ExpiredSignatureError"
    ELSE "ok"

verify_token_newest_only(token, t) ==
    LET e == IF \E other \in issued : /\ other.payload.id = token.payload.id
                                      /\ other.payload.exp > token.payload.exp
             THEN "RevokedError"
             ELSE jwt_decode(token, SECRET_KEY, t) IN
    IF e = "ok"
    THEN [ok |-> TRUE, user_id |-> token.payload.id, error |-> "", logged |-> ""]
    ELSE [ok |-> FALSE, user_id |-> 0, error |-> "AuthenticationError", logged |-> e]

\* verify_token: TokenData(user_id) or AuthenticationError; the PyJWTError is
\* logged only.
verify_token(token, t) ==
    LET e == jwt_decode(token, SECRET_KEY, t) IN
    IF e = "ok"
    THEN [ok |-> TRUE, user_id |-> token.payload.id, error |-> "", logged |-> ""]
    ELSE [ok |-> FALSE, user_id |-> 0, error |-> "AuthenticationError", logged |-> e]

\* ------------------------------------------------------- events, requests
Idle == [pc |-> "idle", uid |-> 0, pid |-> 0, email |-> "", phone |-> "", pw |-> "",
         cur |-> ""]

NoEv == [op |-> "", step |-> "", status |-> 0, error |-> "", detail |-> "",
         uid |-> 0, pid |-> 0, email |-> "", phone |-> "", why |-> "",
         token |-> NoToken, args |-> <<>>]

\* A step that answers: status is the HTTP status of the response.
Answer(op, step, status, error, detail, uid, pid, email, phone, why) ==
    [op |-> op, step |-> step, status |-> status, error |-> error, detail |-> detail,
     uid |-> uid, pid |-> pid, email |-> email, phone |-> phone, why |-> why,
     token |-> NoToken, args |-> <<>>]

\* The same for a step that read the request's bearer token.
AnswerT(token, op, step, status, error, detail, uid, pid) ==
    [Answer(op, step, status, error, detail, uid, pid, "", "", "") EXCEPT !.token = token]

\* A step after which the request is still in flight.
Pending(op, step, uid, pid, email, phone) ==
    Answer(op, step, 0, "", "", uid, pid, email, phone, "")

PendingT(token, op, step, uid, pid) ==
    [Pending(op, step, uid, pid, "", "") EXCEPT !.token = token]

Init ==
    /\ users = {}
    /\ profiles = {}
    /\ nextUid = 1
    /\ nextPid = 1
    /\ now = 0
    /\ issued = {}
    /\ issuedAt = 0
    /\ req = [r \in Reqs |-> Idle]
    /\ ev = NoEv

\* ------------------------------------------------------------ the clock
\* A minute passes.
Tick ==
    /\ now + TicksPerMinute <= MaxNow
    /\ now' = now + TicksPerMinute
    /\ ev' = NoEv
    /\ UNCHANGED <<users, profiles, nextUid, nextPid, issued, issuedAt, req>>

\* A tick passes, within the last and the first ticks of a minute.
TickFine ==
    /\ now < MaxNow + FineTicks
    /\ \/ now % TicksPerMinute < FineTicks
       \/ now % TicksPerMinute >= TicksPerMinute - FineTicks
    /\ now' = now + 1
    /\ ev' = NoEv
    /\ UNCHANGED <<users, profiles, nextUid, nextPid, issued, issuedAt, req>>

\* The middle of a minute passes.
TickSkip ==
    /\ now < MaxNow
    /\ now % TicksPerMinute = FineTicks
    /\ now' = now + TicksPerMinute - 2 * FineTicks
    /\ ev' = NoEv
    /\ UNCHANGED <<users, profiles, nextUid, nextPid, issued, issuedAt, req>>

\* ------------------------------------------------------------- queries
\* db.query(User).filter(User.email == email).first()
UsersByEmail(email) == {u \in users : u.email = email}
UsersByPhone(phone) == {u \in users : u.phone_number = phone}
UsersById(user_id) == {u \in users : u.id = user_id}
ProfilesById(profile_id) == {p \in profiles : p.id = profile_id}
ProfilesByUserId(user_id) == {p \in profiles : p.user_id = user_id}

\* Requests in flight that will still insert a row (a uuid is left for each).
InFlight(pcs) == Cardinality({r \in Reqs : req[r].pc \in pcs})

\* ------------------------------------------------- POST /auth/ (register)
\* ProfileCreate: bio, gender and user_id are required fields.
ProfileCreateRequired == {"bio", "gender", "user_id"}
ProfileCreate(given) == ProfileCreateRequired \subseteq given

EmailTaken_never(email) == FALSE
EmailTaken(email) == UsersByEmail(email) # {}

PhoneTaken_never(phone) == FALSE
PhoneTaken(phone) == UsersByPhone(phone) # {}

\* register_user, first query: the email.
RegisterStart(r, email, phone) ==
    /\ req[r].pc = "idle"
    /\ IF EmailTaken(email)
       THEN /\ ev' = Answer("register", "reg_email", 409, "DuplicateEmailError",
                            "User with email already exists", 0, 0, email, phone, "")
            /\ req' = req
       ELSE /\ nextUid + InFlight({"reg_phone", "reg_insert"}) <= MaxUsers
            /\ ev' = Pending("register", "reg_email", 0, 0, email, phone)
            /\ req' = [req EXCEPT ![r] = [Idle EXCEPT !.pc = "reg_phone",
                                               !.email = email, !.phone = phone]]
    /\ UNCHANGED <<users, profiles, nextUid, nextPid, now, issued, issuedAt>>

\* register_user, second query: the phone number.
RegisterPhone(r) ==
    /\ req[r].pc = "reg_phone"
    /\ IF PhoneTaken(req[r].phone)
       THEN /\ ev' = Answer("register", "reg_phone", 409, "DuplicatePhoneError",
                            "User with phone number already exists", 0, 0,
                            req[r].email, req[r].phone, "")
            /\ req' = [req EXCEPT ![r] = Idle]
       ELSE /\ ev' = Pending("register", "reg_phone", 0, 0, req[r].email, req[r].phone)
            /\ req' = [req EXCEPT ![r].pc = "reg_insert"]
    /\ UNCHANGED <<users, profiles, nextUid, nextPid, now, issued, issuedAt>>

UniqueEmail_absent(email) == TRUE

\* users.email: unique=True; the INSERT of a second row with the email fails.
UniqueEmail(email) == UsersByEmail(email) = {}

NewUser(id, email, phone, names, password, salt) ==
    [id |-> id, email |-> email, phone_number |-> phone, first_name |-> names[1],
     last_name |-> names[2], password_hash |-> get_password_hash(password, salt)]

NewProfile(id, user_id, bio) ==
    [id |-> id, user_id |-> user_id, bio |-> bio, profile_picture |-> "none"]

\* register_user, db.add + db.commit of the user row (users.email is unique),
\* then ProfileCreate(user_id=...) and create_profile.
RegisterInsert(r, names, password, salt) ==
    /\ req[r].pc = "reg_insert"
    /\ req' = [req EXCEPT ![r] = Idle]
    /\ LET email == req[r].email
           phone == req[r].phone
           row == NewUser(nextUid, email, phone, names, password, salt) IN
       IF ~UniqueEmail(email)
       THEN /\ ev' = Answer("register", "reg_insert", 500, "IntegrityError",
                            "Internal Server Error", 0, 0, email, phone, "")
            /\ UNCHANGED <<users, profiles, nextUid, nextPid>>
       ELSE /\ users' = users \cup {row}
            /\ nextUid' = nextUid + 1
            /\ IF ~ProfileCreate({"user_id"})
               THEN /\ ev' = Answer("register", "reg_insert", 500, "ValidationError",
                                    "Internal Server Error", nextUid, 0, email, phone, "")
                    /\ UNCHANGED <<profiles, nextPid>>
               ELSE IF ProfilesByUserId(nextUid) # {}
               THEN /\ ev' = Answer("register", "reg_insert", 500, "ValueError",
                                    "Internal Server Error", nextUid, 0, email, phone, "")
                    /\ UNCHANGED <<profiles, nextPid>>
               ELSE /\ profiles' = profiles \cup {NewProfile(nextPid, nextUid, "")}
                    /\ nextPid' = nextPid + 1
                    /\ ev' = Answer("register", "reg_insert", 201, "",
                                    "User registered successfully", nextUid, nextPid,
                                    email, phone, "")
    /\ UNCHANGED <<now, issued, issuedAt>>

\* ------------------------------------------------ POST /auth/token (login)
\* authenticate_user: the user row, or FALSE.
authenticate_user(email, password) ==
    {u \in UsersByEmail(email) : verify_password(password, u.password_hash)}

InvalidCrendentialError_leaky(why) ==
    IF why = "no_user"
    THEN [status |-> 404, error |-> "UserNotFoundError", detail |-> "User not found"]
    ELSE [status |-> 401, error |-> "InvalidPasswordError",
          detail |-> "Current password is incorrect"]

\* login_for_access_token: "if not user: raise InvalidCrendentialError()"
InvalidCrendentialError(why) ==
    [status |-> 404, error |-> "InvalidCrendentialError",
     detail |-> "Email or password are incorrect"]

\* login_for_access_token; kept are the tokens the client goes on holding.
LoginKeeping(email, password, kept) ==
    /\ LET found == authenticate_user(email, password)
           why == IF UsersByEmail(email) = {} THEN "no_user" ELSE "wrong_password"
           e == InvalidCrendentialError(why) IN
       IF found = {}
       THEN /\ ev' = [Answer("login", "login", e.status, e.error, e.detail,
                             0, 0, email, "", why) EXCEPT !.args = <<password>>]
            /\ UNCHANGED <<issued, issuedAt>>
       ELSE \E u \in found :
            LET token == create_access_token(u.email, u.id, TokenTTL, now) IN
            /\ issued' = kept \cup {token}
            /\ issuedAt' = now
            /\ ev' = [Answer("login", "login", 200, "", "Login successful",
                             u.id, 0, email, "", "") EXCEPT !.args = <<password>>]
    /\ UNCHANGED <<users, profiles, nextUid, nextPid, now, req>>

\* A client that holds the token of its last login only.
Login(email, password) == LoginKeeping(email, password, {})

\* A client that holds the tokens of its earlier logins too.
LoginAgain(email, password) ==
    /\ Cardinality(issued) < MaxTokens
    /\ LoginKeeping(email, password, issued)

\* ------------------------------------------------------- bearer tokens
\* What a client can send as a bearer token: a token it holds, one of those
\* with the payload edited under the old signature, a token signed with
\* another key, or a string that is no token.
Tampered(token) ==
    {[token EXCEPT !.payload.id = u] : u \in UserIds \ {token.payload.id}}
    \cup {[token EXCEPT !.payload.exp = @ + SecondsPerMinute]}

Forged ==
    {jwt_encode([sub |-> "a@x.com", id |-> 1,
                 exp |-> (MaxNow \div TicksPerSecond) + SecondsPerMinute], OtherKey)}

Bearer == issued \cup UNION {Tampered(t) : t \in issued} \cup Forged \cup {Garbage}

\* get_current_user raised: HTTP 401 before the route's body runs.
Unauthorized(token, op, a) ==
    [AnswerT(token, op, "start", 401, a.error, "Could not validate user", 0, 0)
        EXCEPT !.why = a.logged]

\* ------------------------------------------------------ POST /profiles/
EffectiveUserId_body(body_user_id, current_user_id) == body_user_id

\* "profile_data.user_id = current_user.get_uuid()"
EffectiveUserId(body_user_id, current_user_id) == current_user_id

\* create_profile: "existing_profile = get_profile_by_user_id(...)"
HasProfile(user_id) == ProfilesByUserId(user_id) # {}

CreateProfileStart(r, token, body_user_id) ==
    /\ req[r].pc = "idle"
    /\ LET a == verify_token(token, now)
           uid == EffectiveUserId(body_user_id, a.user_id) IN
       IF ~a.ok
       THEN /\ ev' = Unauthorized(token, "create_profile", a)
            /\ req' = req
       ELSE IF HasProfile(uid)
       THEN /\ ev' = [AnswerT(token, "create_profile", "start", 400, "ValueError",
                             "User already has a profile", a.user_id, 0)
                        EXCEPT !.args = <<body_user_id>>]
            /\ req' = req
       ELSE /\ nextPid + InFlight({"cp_insert"}) <= MaxProfiles
            /\ ev' = [PendingT(token, "create_profile", "start", a.user_id, 0)
                        EXCEPT !.args = <<body_user_id>>]
            /\ req' = [req EXCEPT ![r] = [Idle EXCEPT !.pc = "cp_insert", !.uid = uid]]
    /\ UNCHANGED <<users, profiles, nextUid, nextPid, now, issued, issuedAt>>

\* create_profile: db.add + db.commit (profiles.user_id references users.id).
CreateProfileInsert(r, bio) ==
    /\ req[r].pc = "cp_insert"
    /\ req' = [req EXCEPT ![r] = Idle]
    /\ IF UsersById(req[r].uid) = {}
       THEN /\ ev' = Answer("create_profile", "cp_insert", 500, "IntegrityError",
                            "Internal Server Error", req[r].uid, 0, "", "", "")
            /\ UNCHANGED <<profiles, nextPid>>
       ELSE /\ profiles' = profiles \cup {NewProfile(nextPid, req[r].uid, bio)}
            /\ nextPid' = nextPid + 1
            /\ ev' = Answer("create_profile", "cp_insert", 201, "",
                            "Profile created successfully", req[r].uid, nextPid, "", "", "")
    /\ UNCHANGED <<users, nextUid, now, issued, issuedAt>>

\* ------------------------------------- PUT and DELETE /profiles/{profile_id}
update_profile_guard_open(found, user_id) ==
    IF found = {} THEN "not_found" ELSE "ok"

update_profile_guard_owner_first(found, user_id) ==
    IF \A p \in found : p.user_id # user_id THEN "forbidden"
    ELSE IF found = {} THEN "not_found"
    ELSE "ok"

\* update_profile (controller): "if not profile" first, then
\* "if profile.user_id != current_user.get_uuid()".
update_profile_guard(found, user_id) ==
    IF found = {} THEN "not_found"
    ELSE IF \E p \in found : p.user_id # user_id THEN "forbidden"
    ELSE "ok"

\* delete_profile (controller): the same two checks.
delete_profile_guard(found, user_id) ==
    IF found = {} THEN "not_found"
    ELSE IF \E p \in found : p.user_id # user_id THEN "forbidden"
    ELSE "ok"

NotFound(op, step, uid, pid) ==
    Answer(op, step, 404, "", "Profile not found", uid, pid, "", "", "")

NotFoundT(token, op, uid, pid) ==
    [NotFound(op, "start", uid, pid) EXCEPT !.token = token]

UpdateProfileStart(r, token, profile_id) ==
    /\ req[r].pc = "idle"
    /\ LET a == verify_token(token, now)
           g == update_profile_guard(ProfilesById(profile_id), a.user_id) IN
       IF ~a.ok
       THEN /\ ev' = Unauthorized(token, "update_profile", a)
            /\ req' = req
       ELSE IF g = "not_found"
       THEN /\ ev' = NotFoundT(token, "update_profile", a.user_id, profile_id)
            /\ req' = req
       ELSE IF g = "forbidden"
       THEN /\ ev' = AnswerT(token, "update_profile", "start", 403, "",
                            "Not authorized to update this profile",
                            a.user_id, profile_id)
            /\ req' = req
       ELSE /\ ev' = PendingT(token, "update_profile", "start", a.user_id, profile_id)
            /\ req' = [req EXCEPT ![r] = [Idle EXCEPT !.pc = "up_reload",
                                               !.uid = a.user_id, !.pid = profile_id]]
    /\ UNCHANGED <<users, profiles, nextUid, nextPid, now, issued, issuedAt>>

\* PUT /profiles/current: the profile is found by the caller's user id.
UpdateCurrentProfileStart(r, token) ==
    /\ req[r].pc = "idle"
    /\ LET a == verify_token(token, now)
           found == ProfilesByUserId(a.user_id) IN
       IF ~a.ok
       THEN /\ ev' = Unauthorized(token, "update_current_profile", a)
            /\ req' = req
       ELSE IF found = {}
       THEN /\ ev' = NotFoundT(token, "update_current_profile", a.user_id, 0)
            /\ req' = req
       ELSE \E p \in found :
            /\ ev' = PendingT(token, "update_current_profile", "start", a.user_id, p.id)
            /\ req' = [req EXCEPT ![r] = [Idle EXCEPT !.pc = "up_reload",
                                               !.uid = a.user_id, !.pid = p.id]]
    /\ UNCHANGED <<users, profiles, nextUid, nextPid, now, issued, issuedAt>>

\* service.update_profile: get_profile_by_id again.
UpdateProfileReload(r) ==
    /\ req[r].pc = "up_reload"
    /\ IF ProfilesById(req[r].pid) = {}
       THEN /\ ev' = NotFound("update_profile", "up_reload", req[r].uid, req[r].pid)
            /\ req' = [req EXCEPT ![r] = Idle]
       ELSE /\ ev' = Pending("update_profile", "up_reload", req[r].uid, req[r].pid, "", "")
            /\ req' = [req EXCEPT ![r].pc = "up_write"]
    /\ UNCHANGED <<users, profiles, nextUid, nextPid, now, issued, issuedAt>>

ApplyProfileUpdate_with_user_id(p, bio) ==
    [p EXCEPT !.bio = bio, !.user_id = CHOOSE u \in UserIds : u # p.user_id]

\* ProfileUpdate has the content fields only; exclude_unset skips the rest.
ApplyProfileUpdate(p, bio) ==
    IF bio = "unset" THEN p ELSE [p EXCEPT !.bio = bio]

UpdateProfileWrite_leaks(r, bio) ==
    /\ req[r].pc = "up_write"
    /\ IF ProfilesById(req[r].pid) = {}
       THEN /\ ev' = Answer("update_profile", "up_write", 500, "StaleDataError",
                            "Internal Server Error", req[r].uid, req[r].pid, "", "", "")
            /\ req' = [req EXCEPT ![r].pc = "failed"]
            /\ profiles' = profiles
       ELSE /\ profiles' = {IF p.id = req[r].pid THEN ApplyProfileUpdate(p, bio) ELSE p :
                               p \in profiles}
            /\ req' = [req EXCEPT ![r] = Idle]
            /\ ev' = Answer("update_profile", "up_write", 200, "",
                            "Profile updated successfully",
                            req[r].uid, req[r].pid, "", "", "")
    /\ UNCHANGED <<users, nextUid, nextPid, now, issued, issuedAt>>

\* service.update_profile: setattr, db.commit (UPDATE ... WHERE id = ...).
UpdateProfileWrite(r, bio) ==
    /\ req[r].pc = "up_write"
    /\ req' = [req EXCEPT ![r] = Idle]
    /\ IF ProfilesById(req[r].pid) = {}
       THEN /\ ev' = Answer("update_profile", "up_write", 500, "StaleDataError",
                            "Internal Server Error", req[r].uid, req[r].pid, "", "", "")
            /\ profiles' = profiles
       ELSE /\ profiles' = {IF p.id = req[r].pid THEN ApplyProfileUpdate(p, bio) ELSE p :
                               p \in profiles}
            /\ ev' = Answer("update_profile", "up_write", 200, "",
                            "Profile updated successfully",
                            req[r].uid, req[r].pid, "", "", "")
    /\ UNCHANGED <<users, nextUid, nextPid, now, issued, issuedAt>>

DeleteProfileStart(r, token, profile_id) ==
    /\ req[r].pc = "idle"
    /\ LET a == verify_token(token, now)
           g == delete_profile_guard(ProfilesById(profile_id), a.user_id) IN
       IF ~a.ok
       THEN /\ ev' = Unauthorized(token, "delete_profile", a)
            /\ req' = req
       ELSE IF g = "not_found"
       THEN /\ ev' = NotFoundT(token, "delete_profile", a.user_id, profile_id)
            /\ req' = req
       ELSE IF g = "forbidden"
       THEN /\ ev' = AnswerT(token, "delete_profile", "start", 403, "",
                            "Not authorized to delete this profile",
                            a.user_id, profile_id)
            /\ req' = req
       ELSE /\ ev' = PendingT(token, "delete_profile", "start", a.user_id, profile_id)
            /\ req' = [req EXCEPT ![r] = [Idle EXCEPT !.pc = "del_reload",
                                               !.uid = a.user_id, !.pid = profile_id]]
    /\ UNCHANGED <<users, profiles, nextUid, nextPid, now, issued, issuedAt>>

\* DELETE /profiles/: the profile is found by the caller's user id.
DeleteCurrentProfileStart(r, token) ==
    /\ req[r].pc = "idle"
    /\ LET a == verify_token(token, now)
           found == ProfilesByUserId(a.user_id) IN
       IF ~a.ok
       THEN /\ ev' = Unauthorized(token, "delete_current_profile", a)
            /\ req' = req
       ELSE IF found = {}
       THEN /\ ev' = NotFoundT(token, "delete_current_profile", a.user_id, 0)
            /\ req' = req
       ELSE \E p \in found :
            /\ ev' = PendingT(token, "delete_current_profile", "start", a.user_id, p.id)
            /\ req' = [req EXCEPT ![r] = [Idle EXCEPT !.pc = "del_reload",
                                               !.uid = a.user_id, !.pid = p.id]]
    /\ UNCHANGED <<users, profiles, nextUid, nextPid, now, issued, issuedAt>>

\* service.delete_profile: get_profile_by_id again.
DeleteProfileReload(r) ==
    /\ req[r].pc = "del_reload"
    /\ IF ProfilesById(req[r].pid) = {}
       THEN /\ ev' = NotFound("delete_profile", "del_reload", req[r].uid, req[r].pid)
            /\ req' = [req EXCEPT ![r] = Idle]
       ELSE /\ ev' = Pending("delete_profile", "del_reload", req[r].uid, req[r].pid, "", "")
            /\ req' = [req EXCEPT ![r].pc = "del_write"]
    /\ UNCHANGED <<users, profiles, nextUid, nextPid, now, issued, issuedAt>>

DeleteProfileWrite_with_user(r) ==
    /\ req[r].pc = "del_write"
    /\ req' = [req EXCEPT ![r] = Idle]
    /\ profiles' = {p \in profiles : p.id # req[r].pid}
    /\ users' = {u \in users : u.id # req[r].uid}
    /\ ev' = Answer("delete_profile", "del_write", 200, "",
                    "Profile deleted successfully", req[r].uid, req[r].pid, "", "", "")
    /\ UNCHANGED <<nextUid, nextPid, now, issued, issuedAt>>

\* service.delete_profile: db.delete, db.commit (a row already gone is only
\* warned about).
DeleteProfileWrite(r) ==
    /\ req[r].pc = "del_write"
    /\ req' = [req EXCEPT ![r] = Idle]
    /\ profiles' = {p \in profiles : p.id # req[r].pid}
    /\ ev' = Answer("delete_profile", "del_write", 200, "",
                    "Profile deleted successfully", req[r].uid, req[r].pid, "", "", "")
    /\ UNCHANGED <<users, nextUid, nextPid, now, issued, issuedAt>>

\* ------------------------------------------- POST /profiles/upload-picture
\* "static/profile_pictures/{uuid4()}{file_ext}"
PicturePath == "static/profile_pictures/picture.png"

\* upload_profile_picture: the extension and the size of the file, then
\* get_profile_by_user_id.
UploadPictureStart(r, token, file_ok) ==
    /\ req[r].pc = "idle"
    /\ LET a == verify_token(token, now)
           found == ProfilesByUserId(a.user_id) IN
       IF ~a.ok
       THEN /\ ev' = Unauthorized(token, "upload_profile_picture", a)
            /\ req' = req
       ELSE IF ~file_ok
       THEN /\ ev' = AnswerT(token, "upload_profile_picture", "start", 400, "HTTPException",
                            "Invalid file", a.user_id, 0)
            /\ req' = req
       ELSE IF found = {}
       THEN /\ ev' = NotFoundT(token, "upload_profile_picture", a.user_id, 0)
            /\ req' = req
       ELSE \E p \in found :
            /\ ev' = PendingT(token, "upload_profile_picture", "start", a.user_id, p.id)
            /\ req' = [req EXCEPT ![r] = [Idle EXCEPT !.pc = "pic_write",
                                               !.uid = a.user_id, !.pid = p.id]]
    /\ UNCHANGED <<users, profiles, nextUid, nextPid, now, issued, issuedAt>>

\* upload_profile_picture: the file is saved, then
\* "profile.profile_picture = str(file_path)", db.commit.
UploadPictureWrite(r) ==
    /\ req[r].pc = "pic_write"
    /\ req' = [req EXCEPT ![r] = Idle]
    /\ IF ProfilesById(req[r].pid) = {}
       THEN /\ ev' = Answer("upload_profile_picture", "pic_write", 500, "HTTPException",
                            "Failed to upload profile picture",
                            req[r].uid, req[r].pid, "", "", "")
            /\ profiles' = profiles
       ELSE /\ profiles' = {IF p.id = req[r].pid
                             THEN [p EXCEPT !.profile_picture = PicturePath]
                             ELSE p : p \in profiles}
            /\ ev' = Answer("upload_profile_picture", "pic_write", 200, "",
                            "Profile picture uploaded successfully",
                            req[r].uid, req[r].pid, "", "", "")
    /\ UNCHANGED <<users, nextUid, nextPid, now, issued, issuedAt>>

\* ------------------------------------------------ PUT /users/change-password
UserNotFound(token, op, uid) ==
    AnswerT(token, op, "start", 404, "UserNotFoundError", "User with id not found", uid, 0)

\* change_password: get_user_by_id, the current password, the confirmation.
ChangePasswordStart(r, token, current_password, new_password, new_password_confirm) ==
    /\ req[r].pc = "idle"
    /\ LET a == verify_token(token, now)
           found == UsersById(a.user_id)
           body == <<current_password, new_password, new_password_confirm>> IN
       IF ~a.ok
       THEN /\ ev' = Unauthorized(token, "change_password", a)
            /\ req' = req
       ELSE IF found = {}
       THEN /\ ev' = UserNotFound(token, "change_password", a.user_id)
            /\ req' = req
       ELSE IF \E u \in found : ~verify_password(current_password, u.password_hash)
       THEN /\ ev' = [AnswerT(token, "change_password", "start", 401,
                             "InvalidPasswordError", "Current password is incorrect",
                             a.user_id, 0) EXCEPT !.args = body]
            /\ req' = req
       ELSE IF new_password # new_password_confirm
       THEN /\ ev' = [AnswerT(token, "change_password", "start", 400,
                             "PasswordMismatchError", "New passwords do not match",
                             a.user_id, 0) EXCEPT !.args = body]
            /\ req' = req
       ELSE /\ ev' = [PendingT(token, "change_password", "start", a.user_id, 0)
                        EXCEPT !.args = body]
            /\ req' = [req EXCEPT ![r] = [Idle EXCEPT !.pc = "pw_write",
                                               !.uid = a.user_id, !.pw = new_password,
                                               !.cur = current_password]]
    /\ UNCHANGED <<users, profiles, nextUid, nextPid, now, issued, issuedAt>>

\* change_password: "user.password_hash = get_password_hash(...)", db.commit.
ChangePasswordWrite(r, salt) ==
    /\ req[r].pc = "pw_write"
    /\ req' = [req EXCEPT ![r] = Idle]
    /\ users' = {IF u.id = req[r].uid
                 THEN [u EXCEPT !.password_hash = get_password_hash(req[r].pw, salt)]
                 ELSE u : u \in users}
    /\ ev' = [Answer("change_password", "pw_write", 200, "",
                     "Password changed successfully", req[r].uid, 0, "", "", "")
                 EXCEPT !.args = <<req[r].cur, req[r].pw, req[r].pw>>]
    /\ UNCHANGED <<profiles, nextUid, nextPid, now, issued, issuedAt>>

\* ------------------------------------------------------- PUT /users/current
\* update_current_user: get_user_by_id (controller, and again in the
\* service: no request deletes a user row in between).
UpdateUserStart(r, token) ==
    /\ req[r].pc = "idle"
    /\ LET a == verify_token(token, now) IN
       IF ~a.ok
       THEN /\ ev' = Unauthorized(token, "update_current_user", a)
            /\ req' = req
       ELSE IF UsersById(a.user_id) = {}
       THEN /\ ev' = UserNotFound(token, "update_current_user", a.user_id)
            /\ req' = req
       ELSE /\ ev' = PendingT(token, "update_current_user", "start", a.user_id, 0)
            /\ req' = [req EXCEPT ![r] = [Idle EXCEPT !.pc = "uu_write", !.uid = a.user_id]]
    /\ UNCHANGED <<users, profiles, nextUid, nextPid, now, issued, issuedAt>>

ApplyUserUpdate_with_password(u, names, phone) ==
    [u EXCEPT !.first_name = names[1], !.last_name = names[2], !.phone_number = phone,
              !.password_hash = get_password_hash(phone, "s1")]

\* UserUpdate: first_name, last_name, phone_number.
ApplyUserUpdate(u, names, phone) ==
    [u EXCEPT !.first_name = names[1], !.last_name = names[2], !.phone_number = phone]

UpdateUserWrite_every_row(r, names, phone) ==
    /\ req[r].pc = "uu_write"
    /\ req' = [req EXCEPT ![r] = Idle]
    /\ users' = {ApplyUserUpdate(u, names, phone) : u \in users}
    /\ ev' = Answer("update_current_user", "uu_write", 200, "",
                    "User updated successfully", req[r].uid, 0, "", "", "")
    /\ UNCHANGED <<profiles, nextUid, nextPid, now, issued, issuedAt>>

\* update_user: setattr, db.commit.
UpdateUserWrite(r, names, phone) ==
    /\ req[r].pc = "uu_write"
    /\ req' = [req EXCEPT ![r] = Idle]
    /\ users' = {IF u.id = req[r].uid THEN ApplyUserUpdate(u, names, phone) ELSE u :
                    u \in users}
    /\ ev' = Answer("update_current_user", "uu_write", 200, "",
                    "User updated successfully", req[r].uid, 0, "", "", "")
    /\ UNCHANGED <<profiles, nextUid, nextPid, now, issued, issuedAt>>

\* ------------------------------------------------------- specifications
\* The actions of the routes, over the request slots R and the input values.
Register(R, contacts, passwords, salts) ==
    \/ \E r \in R, c \in contacts : RegisterStart(r, c[1], c[2])
    \/ \E r \in R : RegisterPhone(r)
    \/ \E r \in R, names \in RegisterNames, password \in passwords, salt \in salts :
          RegisterInsert(r, names, password, salt)

Profiles(R, tokens, new_bios, bios) ==
    \/ \E r \in R, token \in tokens, body_user_id \in UserIds :
          CreateProfileStart(r, token, body_user_id)
    \/ \E r \in R, bio \in new_bios : CreateProfileInsert(r, bio)
    \/ \E r \in R, token \in tokens, profile_id \in ProfileIds :
          UpdateProfileStart(r, token, profile_id)
    \/ \E r \in R, token \in tokens : UpdateCurrentProfileStart(r, token)
    \/ \E r \in R : UpdateProfileReload(r)
    \/ \E r \in R, bio \in bios \cup {"unset"} : UpdateProfileWrite(r, bio)
    \/ \E r \in R, token \in tokens, profile_id \in ProfileIds :
          DeleteProfileStart(r, token, profile_id)
    \/ \E r \in R, token \in tokens : DeleteCurrentProfileStart(r, token)
    \/ \E r \in R : DeleteProfileReload(r)
    \/ \E r \in R : DeleteProfileWrite(r)

Users(R, tokens, passwords, salts, names, phones) ==
    \/ \E r \in R, token \in tokens, current \in Passwords, new \in passwords,
          confirm \in passwords : ChangePasswordStart(r, token, current, new, confirm)
    \/ \E r \in R, salt \in salts : ChangePasswordWrite(r, salt)
    \/ \E r \in R, token \in tokens : UpdateUserStart(r, token)
    \/ \E r \in R, n \in names, phone \in phones : UpdateUserWrite(r, n, phone)

Clients == \E email \in Emails, password \in Passwords : Login(email, password)

\* Every route, one request at a time, over the smallest input values.
Next ==
    \/ Register(OneAtATime, TwoContacts, OnePassword, OneSalt)
    \/ Profiles(OneAtATime, Bearer, OneBio, OneBio)
    \/ Users(OneAtATime, Bearer, OnePassword, OneSalt, RegisterNames, {"111"})
    \/ Clients
    \/ Tick

Spec == Init /\ [][Next]_vars

\* Registration and login, two requests at a time, over all input values.
NextAccounts == Register(Reqs, Contacts, Passwords, Salts) \/ Clients \/ Tick

SpecAccounts == Init /\ [][NextAccounts]_vars

\* Login and an authenticated route on a clock that shows the ticks within a
\* second.
NextToken ==
    \/ Register(OneAtATime, TwoContacts, OnePassword, OneSalt)
    \/ Users(OneAtATime, Bearer, OnePassword, OneSalt, RegisterNames, {"111"})
    \/ Clients
    \/ TickFine
    \/ TickSkip

SpecToken == Init /\ [][NextToken]_vars

\* The profile routes, two requests at a time, by clients that send the token
\* they hold.
NextProfiles ==
    \/ Register(OneAtATime, TwoContacts, OnePassword, OneSalt)
    \/ Profiles(Reqs, issued, OneBio, OneBio)
    \/ Clients

SpecProfiles == Init /\ [][NextProfiles]_vars

\* Registration and the user routes, two requests at a time, by clients that
\* send the token they hold.
NextUsers ==
    \/ Register(Reqs, Contacts, OnePassword, OneSalt)
    \/ Users(Reqs, issued, Passwords, OneSalt, RegisterNames, Phones)
    \/ Clients

SpecUsers == Init /\ [][NextUsers]_vars

\* Every route, one request at a time, by one user who logs in again and
\* again and sends any token given, on the clock with ticks.
NextSessions ==
    \/ Register(OneAtATime, OneContact, OnePassword, OneSalt)
    \/ Profiles(OneAtATime, issued, OneBio, OneBio)
    \/ Users(OneAtATime, issued, Passwords, OneSalt, RegisterNames, {"111"})
    \/ \E email \in Emails, password \in Passwords : LoginAgain(email, password)
    \/ Tick
    \/ TickFine

SpecSessions == Init /\ [][NextSessions]_vars

\* Every route, one request at a time, by two users who send the token they
\* hold and choose new passwords.
NextRoutes ==
    \/ Register(OneAtATime, TwoContacts, OnePassword, OneSalt)
    \/ Profiles(OneAtATime, issued, OneBio, OneBio)
    \/ Users(OneAtATime, issued, Passwords, OneSalt, RegisterNames, {"111"})
    \/ Clients

SpecRoutes == Init /\ [][NextRoutes]_vars

\* Registration, change-password and login, two requests at a time, with
\* passwords short and long.
NextPasswords ==
    \/ Register(OneAtATime, TwoContacts, AnyPasswords, OneSalt)
    \/ \E r \in Reqs, token \in issued, current \in AnyPasswords, new \in AnyPasswords,
          confirm \in AnyPasswords : ChangePasswordStart(r, token, current, new, confirm)
    \/ \E r \in Reqs, salt \in OneSalt : ChangePasswordWrite(r, salt)
    \/ \E email \in Emails, password \in AnyPasswords : Login(email, password)

SpecPasswords == Init /\ [][NextPasswords]_vars

Pictures(R, tokens) ==
    \/ \E r \in R, token \in tokens, file_ok \in BOOLEAN :
          UploadPictureStart(r, token, file_ok)
    \/ \E r \in R : UploadPictureWrite(r)

\* The profile routes, one request at a time, and with them the picture
\* upload, two requests at a time, by clients that send the token they hold.
NextPictures ==
    \/ Register(OneAtATime, TwoContacts, OnePassword, OneSalt)
    \/ Profiles(OneAtATime, issued, OneBio, OneBio)
    \/ Pictures(Reqs, issued)
    \/ Clients

SpecPictures == Init /\ [][NextPictures]_vars

\* get_db: the sessions that are open, one per request in flight.
OpenSessions == {r \in Reqs : req[r].pc # "idle"}

\* The steps of the request of slot r after its first: the server runs a
\* handler it has started to its end.
Continue(r) ==
    \/ RegisterPhone(r)
    \/ \E names \in RegisterNames : RegisterInsert(r, names, "pw1", "s1")
    \/ CreateProfileInsert(r, "bio1")
    \/ UpdateProfileReload(r)
    \/ \E bio \in OneBio \cup {"unset"} : UpdateProfileWrite(r, bio)
    \/ DeleteProfileReload(r)
    \/ DeleteProfileWrite(r)
    \/ ChangePasswordWrite(r, "s1")
    \/ \E names \in RegisterNames : UpdateUserWrite(r, names, "111")

\* Every route, two requests at a time, by one user, every handler run to its
\* end.
NextHandlers ==
    \/ Register(Reqs, OneContact, OnePassword, OneSalt)
    \/ Profiles(Reqs, issued, OneBio, OneBio)
    \/ Users(Reqs, issued, OnePassword, OneSalt, RegisterNames, {"111"})
    \/ Clients

SpecHandlers ==
    Init /\ [][NextHandlers]_vars /\ \A r \in Reqs : WF_vars(Continue(r))

\* ----------------------------------------------------------- properties
\* A token the server issued to the client and that has not run out.
HoldsValidToken(token) ==
    /\ token \in issued
    /\ token.payload.exp * TicksPerSecond > now

ByIdOps == {"update_profile", "delete_profile"}

MutatingOps == {"create_profile", "update_profile", "update_current_profile",
                "delete_profile", "delete_current_profile",
                "update_current_user", "change_password"}

\* The first step of a request of one of the routes ops has just been taken.
Started(ops) == ev'.step = "start" /\ ev'.op \in ops

\* C1: when a caller with a valid token asks to update or delete by id an
\* existing profile whose user_id is not the caller's id, the answer is 403
\* and the request ends there; and in every step of every interleaving, a
\* profile row is changed or removed only by a request of the row's owner.
C1_OwnershipGuard ==
    [][/\ (/\ Started(ByIdOps)
           /\ HoldsValidToken(ev'.token)
           /\ \E p \in ProfilesById(ev'.pid) : p.user_id # ev'.token.payload.id)
          => (/\ ev'.status = 403
              /\ UNCHANGED <<users, profiles, nextUid, nextPid, req>>)
       /\ \A p \in profiles : p \notin profiles' => ev'.uid = p.user_id]_vars

\* C1 witness: a delete by id of another user's profile was answered 403 while
\* a request of the owner on that profile is in flight.
C1_Witness ==
    /\ ev.op = "delete_profile"
    /\ ev.status = 403
    /\ \E p \in ProfilesById(ev.pid) :
          /\ p.user_id # ev.uid
          /\ \E r \in Reqs : req[r].pc = "up_write" /\ req[r].uid = p.user_id
                                /\ req[r].pid = p.id

\* C2: when a caller with a valid token asks to update or delete by id a
\* profile id that no profile has, the answer is 404 (never 403) whoever the
\* caller is, and the request ends there.
C2_ExistenceBeforeOwnership ==
    [][(/\ Started(ByIdOps)
        /\ HoldsValidToken(ev'.token)
        /\ ProfilesById(ev'.pid) = {})
       => (/\ ev'.status = 404
           /\ ev'.detail = "Profile not found"
           /\ UNCHANGED <<users, profiles, nextUid, nextPid, req>>)]_vars

\* C2 witness: an update by id of an absent profile id was answered 404 to a
\* caller who has no profile, while another user has one.
C2_Witness ==
    /\ ev.op = "update_profile"
    /\ ev.step = "start"
    /\ ev.status = 404
    /\ ProfilesById(ev.pid) = {}
    /\ ProfilesByUserId(ev.uid) = {}
    /\ profiles # {}

\* C3: the first step of every mutating route called with a token that the
\* server did not issue, or that has run out, answers 401 AuthenticationError;
\* nothing is loaded for the request and users and profiles are unchanged.
C3_InvalidTokenRejected ==
    [][(Started(MutatingOps) /\ ~HoldsValidToken(ev'.token))
       => (/\ ev'.status = 401
           /\ ev'.error = "AuthenticationError"
           /\ UNCHANGED <<users, profiles, nextUid, nextPid, req>>)]_vars

\* C3 witness: change-password was refused for a token of an existing user
\* that had run out.
C3_Witness ==
    /\ ev.op = "change_password"
    /\ ev.status = 401
    /\ ev.error = "AuthenticationError"
    /\ ev.token \in issued
    /\ ev.token.payload.exp * TicksPerSecond <= now
    /\ UsersById(ev.token.payload.id) # {}
    /\ profiles # {}

\* The token of the last login was accepted by the step just taken.
Accepted == ev'.error # "AuthenticationError"

\* C4 as stated: the token of a login at issuedAt is accepted at every instant
\* before issuedAt + TokenTTL and refused from that instant on.
C4_ExpiryAtIssuePlusTTL ==
    [][(Started(MutatingOps) /\ ev'.token \in issued)
       => (Accepted <=> now < issuedAt + TokenTTL)]_vars

\* C4 amended: the expiry instant is issuedAt + TokenTTL cut down to a whole
\* second; the token is accepted at every instant before it and refused, with
\* 401 AuthenticationError, from that instant on.
C4_ExpiryAtWholeSecond ==
    [][(Started(MutatingOps) /\ ev'.token \in issued)
       => LET expiry == ((issuedAt + TokenTTL) \div TicksPerSecond) * TicksPerSecond IN
          /\ Accepted <=> now < expiry
          /\ ~Accepted => ev'.status = 401]_vars

\* C4 witness: a token issued within a second was refused at the whole second
\* before issuedAt + TokenTTL.
C4_Witness ==
    /\ ev.step = "start"
    /\ ev.token \in issued
    /\ ev.error = "AuthenticationError"
    /\ issuedAt % TicksPerSecond # 0
    /\ now < issuedAt + TokenTTL

\* What a refused token shows of the response, the cause left out.
Outcome(e) == <<e.status, e.error, e.detail, e.uid, e.pid, e.email, e.phone>>

\* C5: a token whose signature is not the secret's signature of its payload
\* is refused whatever the payload says; and every refusal, whether the
\* signature, the format or the expiry caused it, is the same response:
\* 401, AuthenticationError, "Could not validate user".
C5_TamperedRefusedUniformly ==
    [][/\ (Started(MutatingOps) /\ ev'.token.sig # Sign(ev'.token.payload, SECRET_KEY))
          => ev'.error = "AuthenticationError"
       /\ (Started(MutatingOps) /\ ev'.why # "")
          => Outcome(ev') = <<401, "AuthenticationError", "Could not validate user",
                              0, 0, "", "">>]_vars

\* C5 witness: a token with an edited payload that names an existing user and
\* has not run out was refused for its signature.
C5_Witness ==
    /\ ev.why = "InvalidSignatureError"
    /\ ev.status = 401
    /\ ev.token.payload.exp * TicksPerSecond > now
    /\ UsersById(ev.token.payload.id) # {}
    /\ \E t \in issued : ev.token.sig = t.sig

\* The step just taken is the step of a registration.
Registering(step) == ev'.op = "register" /\ ev'.step = step

\* No row was written.
NoWrite == UNCHANGED <<users, profiles, nextUid, nextPid>>

\* C6: a registration whose email a stored user holds is answered 409
\* DuplicateEmailError by its first query, whether or not the phone number is
\* held too; no row is written and the request ends there.
C6_DuplicateEmail ==
    [][(Registering("reg_email") /\ UsersByEmail(ev'.email) # {})
       => (/\ ev'.status = 409
           /\ ev'.error = "DuplicateEmailError"
           /\ NoWrite
           /\ req' = req)]_vars

\* C6 witness: DuplicateEmailError was the answer to a registration whose
\* phone number another stored user holds.
C6_Witness ==
    /\ ev.op = "register"
    /\ ev.error = "DuplicateEmailError"
    /\ UsersByEmail(ev.email) # {}
    /\ \E u \in UsersByPhone(ev.phone) : u.email # ev.email

\* C7: a registration that passed the email check and whose phone number a
\* stored user holds is answered 409 DuplicatePhoneError; no row is written
\* and no request goes on to the insert.
C7_DuplicatePhone ==
    [][(Registering("reg_phone") /\ UsersByPhone(ev'.phone) # {})
       => (/\ ev'.status = 409
           /\ ev'.error = "DuplicatePhoneError"
           /\ NoWrite
           /\ \A r \in Reqs : req'[r].pc = "reg_insert" => req[r].pc = "reg_insert")]_vars

\* C7 witness: DuplicatePhoneError was the answer to a registration whose
\* email no stored user holds.
C7_Witness ==
    /\ ev.op = "register"
    /\ ev.error = "DuplicatePhoneError"
    /\ UsersByEmail(ev.email) = {}
    /\ UsersByPhone(ev.phone) # {}

\* C8: a login with an email no user holds fails, and every failed login,
\* whether the email or the password caused it, is the same response: 404,
\* InvalidCrendentialError, "Email or password are incorrect"; a failed login
\* changes nothing stored and issues no token.
C8_LoginFailureUniform ==
    [][/\ (ev'.op = "login" /\ UsersByEmail(ev'.email) = {}) => ev'.status # 200
       /\ (ev'.op = "login" /\ (ev'.status # 200 \/ ev'.why # ""))
          => (/\ <<ev'.status, ev'.error, ev'.detail, ev'.uid, ev'.pid>>
                   = <<404, "InvalidCrendentialError",
                       "Email or password are incorrect", 0, 0>>
              /\ NoWrite
              /\ UNCHANGED <<issued, issuedAt, req>>)]_vars

\* C8 witness: a login with the email of a stored user and a wrong password
\* was refused.
C8_Witness ==
    /\ ev.op = "login"
    /\ ev.why = "wrong_password"
    /\ ev.status = 404
    /\ UsersByEmail(ev.email) # {}

\* C9 as stated: a registration that ends in failure leaves no user row of
\* its own in the store.
C9_FailedRegistrationLeavesNoUser ==
    [][(ev'.op = "register" /\ ev'.status \notin {0, 201}) => users' = users]_vars

\* C10 as stated: a registration with an email and a phone number no stored
\* user holds succeeds, and the store then holds the new user, with a hash of
\* the password, and exactly one profile of that user, which is empty.
C10_RegistrationCreatesUserAndProfile ==
    [][(/\ Registering("reg_insert")
        /\ UsersByEmail(ev'.email) = {}
        /\ UsersByPhone(ev'.phone) = {})
       => (/\ ev'.status = 201
           /\ \E u \in users' \ users :
                 /\ u.email = ev'.email
                 /\ u.password_hash.scheme = "bcrypt"
                 /\ \E p \in profiles' \ profiles :
                       /\ p.bio = ""
                       /\ {q \in profiles' : q.user_id = u.id} = {p})]_vars

\* The password a stored hash was made of is the one given.
HashOf(u, password) == u.password_hash.digest[1] = password

\* A registration with an email and a phone number no stored user holds
\* answers 201 and stores the user it names.
RegistrationSucceeds ==
    (/\ Registering("reg_insert")
     /\ UsersByEmail(ev'.email) = {}
     /\ UsersByPhone(ev'.phone) = {})
    => (/\ ev'.status = 201
        /\ \E u \in users' \ users : u.email = ev'.email /\ u.id = ev'.uid)

\* A login with the email and the password of a stored user returns a token
\* that names that user.
LoginReturnsToken ==
    \A u \in users :
       (ev'.op = "login" /\ ev'.email = u.email /\ HashOf(u, ev'.args[1]))
       => (/\ ev'.status = 200
           /\ ev'.uid = u.id
           /\ \E t \in issued' : issued' = {t} /\ t.payload.id = u.id
                                    /\ t.payload.sub = u.email)

\* A route called with the token of the last login, before the token's
\* expiry, runs as the user the token was issued to.
TokenResolvesToUser ==
    (Started(MutatingOps) /\ HoldsValidToken(ev'.token))
    => (/\ Accepted
        /\ ev'.uid = ev'.token.payload.id
        /\ \A u \in UsersByEmail(ev'.token.payload.sub) : u.id = ev'.uid)

\* C11 as stated: a registration succeeds, a login with its email and
\* password then returns a token, and that token, before its expiry, resolves
\* to the id of the user that was registered.
C11_RegisterLoginVerify ==
    [][RegistrationSucceeds /\ LoginReturnsToken /\ TokenResolvesToUser]_vars

\* No user owns two profiles.
OneProfilePerUser == \A u \in users : Cardinality(ProfilesByUserId(u.id)) <= 1

\* POST /profiles/ by a user who has a profile answers 400 and writes nothing.
SecondProfileRefused ==
    (/\ Started({"create_profile"})
     /\ HoldsValidToken(ev'.token)
     /\ ProfilesByUserId(ev'.token.payload.id) # {})
    => (ev'.status = 400 /\ NoWrite /\ req' = req)

\* C12 as stated: in every reachable state no user owns more than one
\* profile, whatever the interleaving of the requests; and a create-profile of
\* a user who has a profile fails and leaves the profiles as they are.
C12_OneProfilePerUserAlways ==
    []OneProfilePerUser /\ [][SecondProfileRefused]_vars

\* C13: in every reachable state, whatever the interleaving of registrations,
\* user updates and password changes, no two stored users have the same
\* email.
C13_EmailsUnique ==
    \A u, v \in users : u.id # v.id => u.email # v.email

\* C13 witness: of two registrations with one email that both passed the
\* email query, the second insert was refused by the store, while a user
\* update or a password change was in flight.
C13_Witness ==
    /\ ev.op = "register"
    /\ ev.error = "IntegrityError"
    /\ Cardinality(UsersByEmail(ev.email)) = 1
    /\ \E r \in Reqs : req[r].pc \in {"uu_write", "pw_write"}

\* C14 as stated: in every reachable state, whatever the interleaving of
\* registrations and user updates, no two stored users have the same phone
\* number.
C14_PhonesUnique ==
    \A u, v \in users : u.id # v.id => u.phone_number # v.phone_number

\* A registration that passed both queries and finds, at its insert, that a
\* user with its email was stored meanwhile answers DuplicateEmailError and
\* writes nothing.
LateDuplicateEmail ==
    (Registering("reg_insert") /\ UsersByEmail(ev'.email) # {})
    => (ev'.error = "DuplicateEmailError" /\ NoWrite)

\* The same for the phone number: DuplicatePhoneError, and nothing written.
LateDuplicatePhone ==
    (/\ Registering("reg_insert")
     /\ UsersByEmail(ev'.email) = {}
     /\ UsersByPhone(ev'.phone) # {})
    => (ev'.error = "DuplicatePhoneError" /\ NoWrite)

\* C15 as stated: of two registrations with one email, or one phone number,
\* that both passed the queries, at most one stores a user and the other
\* answers DuplicateEmailError, or DuplicatePhoneError.
C15_ConcurrentRegistration ==
    [][LateDuplicateEmail /\ LateDuplicatePhone]_vars

\* C16: every token a login returned is accepted by every route at every
\* instant before its expiry, and the request runs as the token's user,
\* whatever was done since the login: password changes, profile deletions,
\* user updates, further logins.
C16_NoRevocation ==
    [][(/\ Started(MutatingOps)
        /\ ev'.token \in issued
        /\ now < ev'.token.payload.exp * TicksPerSecond)
       => (Accepted /\ ev'.uid = ev'.token.payload.id)]_vars

\* C16 witness: a token was accepted (the route went on to refuse the old
\* password pw1) after the user's password was changed, the user's profile
\* was deleted and a later login returned a newer token.
C16_Witness ==
    /\ ev.op = "change_password"
    /\ ev.step = "start"
    /\ ev.error = "InvalidPasswordError"
    /\ ev.args[1] = "pw1"
    /\ \E t \in issued : /\ t.payload.id = ev.token.payload.id
                         /\ t.payload.exp > ev.token.payload.exp
    /\ profiles = {}
    /\ nextPid > 1

\* C17: the password hash of a stored user changes only in the step of a
\* successful change-password of that same user; login, registration, user
\* update and the profile routes leave every stored hash as it is.
C17_HashChangedOnlyByOwner ==
    [][\A u \in users : \A v \in users' :
          (v.id = u.id /\ v.password_hash # u.password_hash)
          => (/\ ev'.op = "change_password"
              /\ ev'.status = 200
              /\ ev'.uid = u.id)]_vars

\* C17 witness: a user's change-password has succeeded and the user's hash
\* is the new password's, while another user's hash is as registered.
C17_Witness ==
    /\ ev.op = "change_password"
    /\ ev.status = 200
    /\ \E u, v \in users : /\ u.id = ev.uid
                           /\ HashOf(u, "pw2")
                           /\ v.id # u.id
                           /\ HashOf(v, "pw1")
    /\ profiles # {}

\* The change-password just answered was refused with this status and error,
\* wrote nothing and left no write pending.
RefusedWith(status, error) ==
    /\ ev'.status = status
    /\ ev'.error = error
    /\ NoWrite
    /\ req' = req

\* C18: a change-password whose current password is not the user's answers
\* 401 InvalidPasswordError, also when the two new passwords differ; with the
\* right current password and two different new passwords it answers 400
\* PasswordMismatchError; in both cases the stored hash is unchanged (the old
\* password still authenticates) and no write follows.
C18_ChangePasswordFailure ==
    [][\A u \in users :
          (/\ Started({"change_password"})
           /\ HoldsValidToken(ev'.token)
           /\ u.id = ev'.token.payload.id)
          => LET current_password == ev'.args[1]
                 new_password == ev'.args[2]
                 new_password_confirm == ev'.args[3] IN
             /\ ~HashOf(u, current_password)
                => RefusedWith(401, "InvalidPasswordError")
             /\ (HashOf(u, current_password) /\ new_password # new_password_confirm)
                => RefusedWith(400, "PasswordMismatchError")]_vars

\* C18 witness: a change-password with a wrong current password and two
\* different new passwords was answered InvalidPasswordError, and the user's
\* password is still the one registered.
C18_Witness ==
    /\ ev.op = "change_password"
    /\ ev.error = "InvalidPasswordError"
    /\ ev.args[2] # ev.args[3]
    /\ \E u \in UsersById(ev.uid) : HashOf(u, "pw1") /\ ev.args[1] # "pw1"

\* C19: the ids of the stored users only grow: no step of any route removes a
\* user row.
C19_UsersNeverDeleted ==
    [][\A u \in users : \E v \in users' : v.id = u.id]_vars

\* C19 witness: every kind of row has been written and a profile deleted, and
\* both registered users are still stored.
C19_Witness ==
    /\ ev.op = "delete_profile"
    /\ ev.step = "del_write"
    /\ ev.status = 200
    /\ UsersById(ev.uid) # {}
    /\ Cardinality(users) = 2
    /\ \E u \in users : HashOf(u, "pw2")

\* The steps that are the first of a request.
FirstSteps == {"start", "reg_email", "login"}

\* A first step that answers opens and closes its session within the step; a
\* first step that does not answer opens a session of its own; a later step
\* that answers, with a success or an error, closes one open session; a later
\* step that does not answer leaves the sessions as they are.
SessionScoped ==
    /\ (ev'.op # "" /\ ev'.step \in FirstSteps /\ ev'.status # 0)
       => OpenSessions' = OpenSessions
    /\ (ev'.op # "" /\ ev'.step \in FirstSteps /\ ev'.status = 0)
       => \E r \in Reqs \ OpenSessions : OpenSessions' = OpenSessions \cup {r}
    /\ (ev'.op # "" /\ ev'.step \notin FirstSteps /\ ev'.status # 0)
       => \E r \in OpenSessions : OpenSessions' = OpenSessions \ {r}
    /\ (ev'.op # "" /\ ev'.step \notin FirstSteps /\ ev'.status = 0)
       => OpenSessions' = OpenSessions

AuthenticatesAfter(email, password) ==
    \E w \in users' : w.email = email /\ verify_password(password, w.password_hash)

\* C21 as stated: after a successful change-password of user U from current
\* to new, a login of U with new succeeds and, when new is another password
\* than current, a login of U with current fails; every other user
\* authenticates with the same passwords as before; and a login that fails
\* answers InvalidCrendentialError.
C21_PasswordChangeTakesEffect ==
    [][/\ (ev'.op = "change_password" /\ ev'.status = 200)
          => \A u \in UsersById(ev'.uid) :
                LET current == ev'.args[1]
                    new == ev'.args[2] IN
                /\ AuthenticatesAfter(u.email, new)
                /\ new # current => ~AuthenticatesAfter(u.email, current)
                /\ \A v \in users \ {u} : \A password \in AnyPasswords :
                      AuthenticatesAfter(v.email, password)
                      <=> authenticate_user(v.email, password) # {}
       /\ (ev'.op = "login" /\ authenticate_user(ev'.email, ev'.args[1]) = {})
          => ev'.error = "InvalidCrendentialError"]_vars

\* C22: a create-profile that passes its checks goes on to insert for the
\* user of its token, whatever user_id its body names, and the profile a
\* create-profile stores is the one profile written in its step and is owned
\* by the user the request runs as: no caller creates a profile of another
\* user.
C22_ProfileCreatedForCaller ==
    [][/\ (Started({"create_profile"}) /\ ev'.status = 0)
          => \E r \in Reqs : /\ req[r].pc = "idle"
                              /\ req'[r].pc = "cp_insert"
                              /\ req'[r].uid = ev'.token.payload.id
       /\ (Started({"create_profile"}) /\ ev'.status = 400)
          => (NoWrite /\ req' = req)
       /\ (ev'.op = "create_profile" /\ ev'.status = 201)
          => \E r \in Reqs : \E p \in profiles' \ profiles :
                /\ req[r].pc = "cp_insert"
                /\ req'[r].pc = "idle"
                /\ profiles' = profiles \cup {p}
                /\ p.user_id = req[r].uid
                /\ p.id = ev'.pid]_vars

\* C22 witness: a create-profile whose body names another stored user passed
\* its checks and goes on to insert for the caller, while the user the body
\* names has a profile and the caller has none.
C22_Witness ==
    /\ ev.op = "create_profile"
    /\ ev.step = "start"
    /\ ev.status = 0
    /\ ev.args[1] # ev.token.payload.id
    /\ UsersById(ev.args[1]) # {}
    /\ ProfilesByUserId(ev.args[1]) # {}
    /\ ProfilesByUserId(ev.token.payload.id) = {}
    /\ \E r \in Reqs : req[r].pc = "cp_insert" /\ req[r].uid = ev.token.payload.id

\* The set of the profile ids is as it was.
SameProfileIds == {p.id : p \in profiles'} = {p.id : p \in profiles}

\* Every profile but the one of the step just taken is as it was.
OtherProfilesKept == \A p \in profiles : p.id # ev'.pid => p \in profiles'

\* C23: in every step of every route a stored profile keeps its id and its
\* user_id; a successful update or picture upload leaves the set of profiles
\* the same but for the content of the one profile it names; a successful
\* delete removes that one profile and no other; and none of them writes a
\* user row.
C23_ProfileOwnershipImmutable ==
    [][/\ \A p \in profiles : \A q \in profiles' : q.id = p.id => q.user_id = p.user_id
       /\ (ev'.op \in {"update_profile", "upload_profile_picture"} /\ ev'.status = 200)
          => (SameProfileIds /\ OtherProfilesKept /\ users' = users)
       /\ (ev'.op = "delete_profile" /\ ev'.status = 200)
          => (/\ profiles' = {p \in profiles : p.id # ev'.pid}
              /\ users' = users)]_vars

\* C23 witness: a picture upload has succeeded on the caller's profile, and
\* the profile of the other user has no picture and its owner.
C23_Witness ==
    /\ ev.op = "upload_profile_picture"
    /\ ev.status = 200
    /\ \E p, q \in profiles :
          /\ p.id = ev.pid
          /\ p.user_id = ev.uid
          /\ p.profile_picture = PicturePath
          /\ q.id # p.id
          /\ q.user_id # p.user_id
          /\ q.profile_picture = "none"
    /\ Cardinality(users) = 2

\* Every token a login returned and that verifies now names a stored user.
IssuedTokensLive ==
    \A t \in issued :
       verify_token(t, now).ok => UsersById(verify_token(t, now).user_id) # {}

\* A route that accepted its token runs as a stored user.
DecisionsForStoredUsers ==
    (Started(MutatingOps) /\ Accepted) => UsersById(ev'.uid) # {}

\* C24: in every reachable state every token that a login returned and that
\* still verifies decodes to the id of a stored user, and every route that
\* accepts a token goes on for a user whose row is stored.
C24_TokenIdentityLive ==
    []IssuedTokensLive /\ [][DecisionsForStoredUsers]_vars

\* C24 witness: of two tokens the client holds one has run out and the other
\* was accepted by a user update, after the user's password was changed and
\* the user's profile deleted.
C24_Witness ==
    /\ ev.op = "update_current_user"
    /\ ev.step = "start"
    /\ ev.status = 0
    /\ verify_token(ev.token, now).ok
    /\ \E t \in issued : ~verify_token(t, now).ok
    /\ \E u \in UsersById(ev.uid) : u.password_hash.digest[1] = "pw2"
    /\ profiles = {}
    /\ nextPid > 1

\* C25: a user update called with a valid token of user U writes nothing in
\* its first step and goes on for U and no other user, or, when no row of U
\* is stored, answers 404 UserNotFoundError and ends; the step that answers
\* 200 replaces the row of U by a row with the same id, email and password
\* hash and leaves every other user row and every profile as they are.
C25_UserUpdateConfined ==
    [][/\ (Started({"update_current_user"}) /\ HoldsValidToken(ev'.token))
          => /\ NoWrite
             /\ UsersById(ev'.token.payload.id) = {}
                => (/\ ev'.status = 404
                    /\ ev'.error = "UserNotFoundError"
                    /\ req' = req)
             /\ UsersById(ev'.token.payload.id) # {}
                => \E r \in Reqs : /\ req[r].pc = "idle"
                                    /\ req' = [req EXCEPT ![r] = req'[r]]
                                    /\ req'[r].pc = "uu_write"
                                    /\ req'[r].uid = ev'.token.payload.id
       /\ (ev'.op = "update_current_user" /\ ev'.status = 200)
          => /\ profiles' = profiles
             /\ \E u \in users : \E w \in users' :
                   /\ u.id = ev'.uid
                   /\ users' = (users \ {u}) \cup {w}
                   /\ w.id = u.id
                   /\ w.email = u.email
                   /\ w.password_hash = u.password_hash]_vars

\* C25 witness: a user update has succeeded for a user whose password had
\* been changed, while the other user, who has the same phone number, has a
\* password change in flight.
C25_Witness ==
    /\ ev.op = "update_current_user"
    /\ ev.status = 200
    /\ \E u, v \in users :
          /\ u.id = ev.uid
          /\ u.email = "a@x.com"
          /\ u.phone_number = "222"
          /\ u.password_hash.digest[1] = "pw2"
          /\ v.id # u.id
          /\ v.phone_number = "222"
          /\ \E r \in Reqs : req[r].pc = "pw_write" /\ req[r].uid = v.id

====
